---- MODULE Spec2Model ----
(* Feistel block cipher of cryptography-feistel/src/main.rs.                *)
(* Byte sequences are TLA+ sequences (1-based) of naturals in 0..255.       *)
(* The caller (main) runs crypt_block twice: once on the input block and    *)
(* once, in the opposite direction, on the result of the first call.        *)
EXTENDS Integers, Sequences, FiniteSets

\* ---------------------------------------------------------------- bounds
MaxBlockLen == 6
MaxKeyLen == 3
MaxRounds == 4

\* Sample octets the caller draws block and key bytes from.
BlockBytes == {3, 200}
KeyBytes == {77, 129}

RECURSIVE SeqsUpTo(_, _)
SeqsUpTo(S, n) ==
    IF n = 0 THEN {<< >>}
    ELSE LET shorter == SeqsUpTo(S, n - 1)
         IN  shorter \cup {Append(s, b) : s \in {t \in shorter : Len(t) = n - 1}, b \in S}

Blocks == SeqsUpTo(BlockBytes, MaxBlockLen)

\* One block of pairwise distinct bytes per length.
RampBlocks == {[j \in 1..n |-> (37 * j) % 256] : n \in 0..MaxBlockLen}

Keys == SeqsUpTo(KeyBytes, MaxKeyLen)

\* main's own inputs: "budapesh", "rust", 10 rounds
MainBlock == <<98, 117, 100, 97, 112, 101, 115, 104>>
MainKey == <<114, 117, 115, 116>>
MainRounds == 10

\* the calls a caller makes: main's call (encrypt direction), and every call
\* with a block from B, a key from Keys, up to MaxRounds rounds, either direction
Inputs(B) ==
    (B \X Keys \X (0..MaxRounds) \X BOOLEAN)
        \cup {<<MainBlock, MainKey, MainRounds, FALSE>>}

\* ------------------------------------------------------- u8 arithmetic
RECURSIVE bits_xor(_, _, _)
bits_xor(a, b, n) ==
    IF n = 0 THEN 0
    ELSE (((a % 2) + (b % 2)) % 2) + 2 * bits_xor(a \div 2, b \div 2, n - 1)

\* i ^ j on u8, tabulated bit by bit
XorTable == [a \in 0..255 |-> [b \in 0..255 |-> bits_xor(a, b, 8)]]

xor8(a, b) == XorTable[a][b]

RECURSIVE bits_not(_, _)
bits_not(a, n) ==
    IF n = 0 THEN 0
    ELSE (1 - (a % 2)) + 2 * bits_not(a \div 2, n - 1)

\* !x on u8, tabulated bit by bit
NotTable == [a \in 0..255 |-> bits_not(a, 8)]

not8(a) == NotTable[a]

\* x << 1 on u8: the bit shifted out of the byte is dropped
shl8(a) == (a * 2) % 256

\* x << 1 panics (overflow checks on) only when the shift amount reaches the width
shl_panics(amount) == amount >= 8

Min(a, b) == IF a <= b THEN a ELSE b

\* ------------------------------------------------- byte-array primitives
vec_xor(vec1, vec2) ==
    [i \in 1..Min(Len(vec1), Len(vec2)) |-> xor8(vec1[i], vec2[i])]

vec_invert(vect) == [i \in 1..Len(vect) |-> not8(vect[i])]

bit_left_rotate(vect) == [i \in 1..Len(vect) |-> ((vect[i] * 2) % 256) + (vect[i] \div 128)]

bit_left(vect) == [i \in 1..Len(vect) |-> shl8(vect[i])]

\* ------------------------------------------------------ word permutation
\* word.swap(a, b) with 0-based indices
swap(word, a, b) == [word EXCEPT ![a + 1] = word[b + 1], ![b + 1] = word[a + 1]]

RECURSIVE permute_loop(_, _, _)
permute_loop(word, key, i) ==
    IF i >= Len(word) THEN word
    ELSE permute_loop(swap(word, i, (i + key) % Len(word)), key, i + 1)

RECURSIVE permute_loop_clamp(_, _, _)
permute_loop_clamp(word, key, i) ==
    IF i >= Len(word) THEN word
    ELSE permute_loop_clamp(swap(word, i, Min(i + key, Len(word) - 1)), key, i + 1)

permute_word_clamp(word, key) == permute_loop_clamp(word, key, 0)

RECURSIVE permute_loop_next(_, _, _)
permute_loop_next(word, key, i) ==
    IF i >= Len(word) THEN word
    ELSE permute_loop_next(swap(word, i, (i + key + 1) % Len(word)), key, i + 1)

permute_word_next(word, key) == permute_loop_next(word, key, 0)

permute_word(word, key) == permute_loop(word, key, 0)

\* the remainder is taken inside the loop body: it divides by zero only if
\* an iteration runs on a word of length zero
permute_word_panics_hoisted(word, key) == Len(word) = 0

permute_word_panics(word, key) == \E i \in 0..(Len(word) - 1) : Len(word) = 0

\* -------------------------------------------------------- round function
f(right, key) == bit_left(vec_invert(vec_xor(right, key)))

\* ---------------------------------------------------------- key schedule
Reverse(s) == [j \in 1..Len(s) |-> s[Len(s) + 1 - j]]

RECURSIVE keys_loop(_, _, _, _)
keys_loop(key, i, rounds, res) ==
    IF i >= rounds THEN res
    ELSE keys_loop(key, i + 1, rounds, Append(res, permute_word(key, i)))

RECURSIVE keys_loop_chained(_, _, _, _)
keys_loop_chained(key, i, rounds, res) ==
    IF i >= rounds THEN res
    ELSE keys_loop_chained(permute_word(key, i), i + 1, rounds,
                           Append(res, permute_word(key, i)))

keys_gen_chained(key, decrypt, rounds) ==
    LET res == keys_loop_chained(key, 0, rounds, << >>)
    IN  IF decrypt = TRUE THEN Reverse(res) ELSE res

keys_gen_forward(key, decrypt, rounds) == keys_loop(key, 0, rounds, << >>)

keys_gen(key, decrypt, rounds) ==
    LET res == keys_loop(key, 0, rounds, << >>)
    IN  IF decrypt = TRUE THEN Reverse(res) ELSE res

keys_gen_panics(key, rounds) ==
    \E i \in 0..(rounds - 1) : permute_word_panics(key, i)

\* ------------------------------------------------------- round transform
\* block[lo..hi] panics when lo > hi or hi > block.len()
slice_panics(block, lo, hi) == lo > hi \/ hi > Len(block)

\* block[lo..hi].to_vec() with 0-based, end-exclusive bounds
slice(block, lo, hi) == SubSeq(block, lo + 1, hi)

left_half(block) == slice(block, 0, Len(block) \div 2)

right_half(block) == slice(block, Len(block) \div 2, Len(block))

split_panics(block) ==
    \/ slice_panics(block, 0, Len(block) \div 2)
    \/ slice_panics(block, Len(block) \div 2, Len(block))

crypt_round_unswapped(block, round_key) ==
    LET left == left_half(block)
        right == right_half(block)
        new_right == vec_xor(left, f(right, round_key))
    IN  new_right \o right

crypt_round_short(block, round_key) ==
    LET left == left_half(block)
        right == slice(block, (Len(block) + 1) \div 2, Len(block))
        new_right == vec_xor(left, f(right, round_key))
    IN  right \o new_right

crypt_round(block, round_key) ==
    LET left == left_half(block)
        right == right_half(block)
        new_right == vec_xor(left, f(right, round_key))
    IN  right \o new_right

crypt_round_panics(block) == split_panics(block) \/ shl_panics(1)

\* ---------------------------------------------------------- block driver
final_swap_missing(block) == block

\* lines 55-57: [right, left].concat()
final_swap(block) == right_half(block) \o left_half(block)

RECURSIVE rounds_loop(_, _, _)
\* the block after the first n round keys of the schedule have been applied
rounds_loop(block, keys, n) ==
    IF n = 0 THEN block
    ELSE crypt_round(rounds_loop(block, keys, n - 1), keys[n])

crypt_block(block, key, decrypt, rounds) ==
    LET keys == keys_gen(key, decrypt, rounds)
    IN  final_swap(rounds_loop(block, keys, Len(keys)))

\* ------------------------------------------------------------------ state
VARIABLES
    block,      \* main: the caller's block
    key,        \* main: the caller's key
    rounds,     \* main: the round count
    phase,      \* main: 0 = no call yet, 1 = first crypt_block call, 2 = second call
    first,      \* result of the first call (main's `encrypt`)
    arg,        \* crypt_block: the block the current call was given
    decrypt,    \* crypt_block: direction flag of the current call
    pc,         \* "start" before the first call; in crypt_block: "derive", "round",
                \* "done", or "panic"
    keys,       \* crypt_block: the schedule
    i,          \* crypt_block: round keys consumed so far
    cur,        \* crypt_block: the local `block`
    swaps,      \* crypt_block: final half-swaps performed by the current call
    prev,       \* crypt_round: the block the last round was given
    right,      \* crypt_round: the right half handed to f by the last round
    round_key,  \* crypt_round: the round key of the last round
    mask        \* crypt_round: what f returned in the last round

vars == <<block, key, rounds, phase, first, arg, decrypt, pc, keys, i, cur,
          swaps, prev, right, round_key, mask>>

Init ==
    /\ block = << >>
    /\ key = << >>
    /\ rounds = 0
    /\ decrypt = FALSE
    /\ phase = 0
    /\ first = << >>
    /\ arg = << >>
    /\ cur = << >>
    /\ pc = "start"
    /\ keys = << >>
    /\ i = 0
    /\ swaps = 0
    /\ prev = << >>
    /\ right = << >>
    /\ round_key = << >>
    /\ mask = << >>

\* lines 61-64: the caller supplies block, key, round count and direction
\* and makes the first crypt_block call
FirstCall ==
    /\ pc = "start"
    /\ \E inp \in Inputs(Blocks) :
           /\ block' = inp[1]
           /\ key' = inp[2]
           /\ rounds' = inp[3]
           /\ decrypt' = inp[4]
           /\ arg' = inp[1]
           /\ cur' = inp[1]
    /\ phase' = 1
    /\ pc' = "derive"
    /\ UNCHANGED <<first, keys, i, swaps, prev, right, round_key, mask>>

\* lines 61-64, the block drawn from RampBlocks
FirstCallRamp ==
    /\ pc = "start"
    /\ \E inp \in Inputs(RampBlocks) :
           /\ block' = inp[1]
           /\ key' = inp[2]
           /\ rounds' = inp[3]
           /\ decrypt' = inp[4]
           /\ arg' = inp[1]
           /\ cur' = inp[1]
    /\ phase' = 1
    /\ pc' = "derive"
    /\ UNCHANGED <<first, keys, i, swaps, prev, right, round_key, mask>>

\* line 51
DeriveSchedule ==
    /\ pc = "derive"
    /\ keys' = keys_gen(key, decrypt, rounds)
    /\ pc' = IF keys_gen_panics(key, rounds) THEN "panic" ELSE "round"
    /\ UNCHANGED <<block, key, rounds, phase, first, arg, decrypt, i, cur, swaps,
                   prev, right, round_key, mask>>

RoundFirstKey ==
    /\ pc = "round"
    /\ i < Len(keys)
    /\ prev' = cur
    /\ right' = right_half(cur)
    /\ round_key' = keys[1]
    /\ mask' = f(right_half(cur), keys[1])
    /\ cur' = crypt_round(cur, keys[1])
    /\ i' = i + 1
    /\ pc' = IF crypt_round_panics(cur) THEN "panic" ELSE "round"
    /\ UNCHANGED <<block, key, rounds, phase, first, arg, decrypt, keys, swaps>>

\* lines 52-54, one iteration
Round ==
    /\ pc = "round"
    /\ i < Len(keys)
    /\ prev' = cur
    /\ right' = right_half(cur)
    /\ round_key' = keys[i + 1]
    /\ mask' = f(right_half(cur), keys[i + 1])
    /\ cur' = crypt_round(cur, keys[i + 1])
    /\ i' = i + 1
    /\ pc' = IF crypt_round_panics(cur) THEN "panic" ELSE "round"
    /\ UNCHANGED <<block, key, rounds, phase, first, arg, decrypt, keys, swaps>>

\* lines 55-57
FinalSwap ==
    /\ pc = "round"
    /\ i >= Len(keys)
    /\ cur' = final_swap(cur)
    /\ swaps' = swaps + 1
    /\ pc' = IF split_panics(cur) THEN "panic" ELSE "done"
    /\ UNCHANGED <<block, key, rounds, phase, first, arg, decrypt, keys, i,
                   prev, right, round_key, mask>>

\* lines 64-65: the first result is fed to a call in the opposite direction
SecondCall ==
    /\ pc = "done"
    /\ phase = 1
    /\ phase' = 2
    /\ first' = cur
    /\ arg' = cur
    /\ decrypt' = ~decrypt
    /\ pc' = "derive"
    /\ keys' = << >>
    /\ i' = 0
    /\ swaps' = 0
    /\ prev' = << >>
    /\ right' = << >>
    /\ round_key' = << >>
    /\ mask' = << >>
    /\ UNCHANGED <<block, key, rounds, cur>>

Next == FirstCall \/ DeriveSchedule \/ Round \/ FinalSwap \/ SecondCall

Spec == Init /\ [][Next]_vars

NextRamp == FirstCallRamp \/ DeriveSchedule \/ Round \/ FinalSwap \/ SecondCall

\* crypt_block is straight-line code without blocking calls: a started call
\* keeps taking its steps
FairSpec ==
    /\ Init
    /\ [][NextRamp]_vars
    /\ WF_vars(DeriveSchedule \/ Round \/ FinalSwap)

\* ----------------------------------------------------------------- claims
\* the two halves of b exchanged, the longer half first when Len(b) is odd
HalvesSwapped(b) ==
    SubSeq(b, (Len(b) \div 2) + 1, Len(b)) \o SubSeq(b, 1, Len(b) \div 2)

\* a byte on which f drops a set top bit
Lossy(h, k) ==
    \E j \in 1..Min(Len(h), Len(k)) : 255 - xor8(h[j], k[j]) >= 128

\* C1: encrypting an even-length block with a key of half its length and then
\* decrypting the result with the same key and round count gives the block back.
C1_RoundTrip ==
    (phase = 2 /\ pc = "done" /\ decrypt
        /\ Len(block) % 2 = 0 /\ Len(key) = Len(block) \div 2)
    => cur = block

C1_Witness ==
    /\ phase = 2 /\ pc = "done" /\ decrypt
    /\ Len(block) = 6 /\ Len(key) = 3 /\ rounds >= 3
    /\ keys[1] # keys[2]
    /\ Lossy(right, round_key)
    /\ first # block
    /\ cur = block

\* C2 (as stated): the block has the length of the input block at every point
\* of a crypt_block call, whatever the key.
C2_SameLength == Len(cur) = Len(arg)

\* C2 (amended): the block keeps the length of the input block throughout a call
\* when rounds = 0 or the key has at least floor(len(block)/2) bytes.
C2_SameLengthIfKeyCovers ==
    (rounds = 0 \/ Len(key) >= Len(arg) \div 2) => Len(cur) = Len(arg)

C2_Witness ==
    /\ pc = "done" /\ rounds >= 2
    /\ Len(arg) = 5 /\ Len(key) = 2
    /\ Len(cur) = 5

\* C3: with rounds = 0 the schedule is empty and the result is the input block
\* with its halves swapped, in either direction.
C3_ZeroRounds ==
    (pc = "done" /\ rounds = 0) => (keys = << >> /\ cur = HalvesSwapped(arg))

C3_Witness ==
    /\ pc = "done" /\ rounds = 0 /\ decrypt /\ phase = 1
    /\ Len(arg) = 5 /\ Len(key) = 1
    /\ cur # arg

\* C4: the schedule has `rounds` entries; encrypting, entry r is
\* permute_word(key, r); decrypting, entry j is permute_word(key, rounds-1-j).
C4_ScheduleReversal ==
    pc \in {"round", "done"} =>
        /\ Len(keys) = rounds
        /\ \A j \in 0..(rounds - 1) :
               keys[j + 1] = permute_word(key, IF decrypt THEN rounds - 1 - j ELSE j)

C4_Witness ==
    /\ pc = "round" /\ decrypt /\ rounds = 3 /\ Len(key) = 3
    /\ keys[1] = permute_word(key, 2)
    /\ keys[1] # keys[2] /\ keys[2] # keys[3] /\ keys[1] # keys[3]

\* C5: no step of a crypt_block call panics, whatever the block, key,
\* direction and round count.
C5_NoPanic == pc # "panic"

C5_Witness ==
    /\ pc = "done" /\ rounds > 0
    /\ key = << >> /\ Len(arg) % 2 = 1

\* C6: permute_word(key, 0) is the key, so the round key of round index 0
\* (first when encrypting, last when decrypting) is the base key.
C6_PermuteZero ==
    /\ permute_word(key, 0) = key
    /\ (pc \in {"round", "done"} /\ rounds > 0) =>
           keys[IF decrypt THEN rounds ELSE 1] = key

C6_Witness ==
    /\ pc = "round" /\ ~decrypt /\ rounds >= 2
    /\ Len(key) = 3 /\ key[1] # key[2]
    /\ keys[1] = key /\ keys[2] # key

\* C7: for an even-length block and a round key of half its length, swapping
\* the halves of a round's output, applying the round again with the same key
\* and swapping the halves of that gives the round's input back.
C7_RoundUndo ==
    (pc = "round" /\ i > 0
        /\ Len(prev) % 2 = 0 /\ Len(round_key) = Len(prev) \div 2)
    => /\ cur = right \o vec_xor(SubSeq(prev, 1, Len(prev) \div 2), mask)
       /\ HalvesSwapped(crypt_round(HalvesSwapped(cur), round_key)) = prev

C7_Witness ==
    /\ pc = "round" /\ i > 0
    /\ Len(prev) = 6 /\ Len(round_key) = 3
    /\ Lossy(right, round_key)
    /\ HalvesSwapped(crypt_round(HalvesSwapped(cur), round_key)) = prev

\* C8: a call derives the schedule once, then applies the round transform to
\* the running block once per round key in schedule order, then swaps the
\* halves once, and every started call reaches done.
C8_StepLinear ==
    /\ (pc = "start" => pc' = "derive")
    /\ (pc = "derive" => pc' = "round" /\ i' = 0 /\ cur' = arg /\ swaps' = 0)
    /\ (pc = "round" /\ pc' = "round" =>
            /\ i < rounds /\ i' = i + 1 /\ keys' = keys /\ swaps' = 0
            /\ cur' = crypt_round(cur, keys[i + 1]))
    /\ (pc = "round" /\ pc' # "round" =>
            /\ pc' = "done" /\ i = rounds /\ i' = i /\ keys' = keys /\ swaps' = 1
            /\ cur' = HalvesSwapped(cur))
    /\ (pc = "done" => pc' = "derive" /\ phase' = phase + 1)

C8_Linear ==
    /\ [][C8_StepLinear]_vars
    /\ [](pc = "round" =>
            /\ keys = keys_gen(key, decrypt, rounds)
            /\ cur = rounds_loop(arg, keys, i))
    /\ [](pc = "done" =>
            /\ i = rounds /\ swaps = 1
            /\ cur = crypt_block(arg, key, decrypt, rounds))
    /\ (pc = "derive" ~> pc = "done")

C8_Witness ==
    /\ pc = "done" /\ phase = 2 /\ rounds = 4 /\ i = 4 /\ swaps = 1
    /\ Len(arg) = 6 /\ Len(key) = 3
    /\ keys[1] # keys[2]
    /\ cur # arg

\* C9: f(h, k) has min(len h, len k) bytes, byte j being
\* (2 * (255 - (h[j] XOR k[j]))) mod 256, which is even.
C9_RoundFunction ==
    i > 0 =>
        /\ Len(mask) = Min(Len(right), Len(round_key))
        /\ \A j \in 1..Len(mask) :
               /\ mask[j] = (2 * (255 - xor8(right[j], round_key[j]))) % 256
               /\ mask[j] % 2 = 0

C9_Witness ==
    /\ i > 0
    /\ Len(right) = 3 /\ Len(round_key) = 2 /\ Len(mask) = 2
    /\ 255 - xor8(right[1], round_key[1]) >= 128
    /\ 255 - xor8(right[2], round_key[2]) < 128

\* C10: for a non-empty key the encrypt schedule's entry r is
\* permute_word(key, r mod len(key)); entries whose index is a multiple of
\* len(key) are the key itself and the schedule has period len(key).
C10_SchedulePeriod ==
    (pc \in {"round", "done"} /\ ~decrypt /\ Len(key) > 0) =>
        \A r \in 0..(Len(keys) - 1) :
            /\ permute_word(key, r) = permute_word(key, r % Len(key))
            /\ keys[r + 1] = permute_word(key, r % Len(key))
            /\ (r % Len(key) = 0 => keys[r + 1] = key)
            /\ (r >= Len(key) => keys[r + 1] = keys[r + 1 - Len(key)])

C10_Witness ==
    /\ pc = "round" /\ ~decrypt /\ rounds = 4 /\ Len(key) = 3
    /\ keys[2] # key /\ keys[3] # key /\ keys[2] # keys[3]
    /\ keys[4] = key

====
